---- MODULE Spec2Model ----
(***************************************************************************)
(* A model of the audio-scribe command-line scripts:                       *)
(*   transcribe-all-files.py  (folder mode, local Whisper model)           *)
(*   transcribe.py            (single file, local Whisper model)           *)
(*   transcribe-openai.py     (single file, OpenAI API)                    *)
(*   transcribe-azure.py      (single file, Azure OpenAI API)              *)
(* One behaviour is one run of one script's main().  The filesystem, the   *)
(* command line, the environment and the backend's answers are inputs.     *)
(*                                                                         *)
(* Strings the code takes apart (file names) are sequences of one-char     *)
(* strings; a generated output name is the base name's characters followed *)
(* by the words of the format string.  A path is a record [dir, name].     *)
(***************************************************************************)
EXTENDS Integers, Sequences, FiniteSets, TLC

VARIABLES
    script,      \* which script's main() runs
    input_path,  \* args.input_path (single-file scripts): a path, or NoPath
    output_dir,  \* args.output_dir
    model_size,  \* args.model
    creds,       \* the API credentials are present in the environment
    fs,          \* directory path -> "dir" | "file" | "missing"
    fsStart,     \* history: fs as it was when main() started
    listing,     \* the entries of the audio folder, in os.listdir order
    outFiles,    \* files below output_dir: path -> content
    clock,       \* the local clock, in whole seconds
    pc,          \* position of the running script
    files,       \* process_audio_folder: the list `files`
    idx,         \* process_audio_folder: index of `filename` in `files`
    status,      \* per index of files: Pending / InProgress / Succeeded / Failed
    loads,       \* per index (single-file: 1): calls of whisper.load_model
    calls,       \* per index (single-file: 1): calls of the backend transcription
    returned,    \* per index (single-file: 1): value returned by the transcribe function
    text,        \* the backend's answer for the file in progress
    writes,      \* history: every completed write: [src, path, text, at]
    stdout,      \* the diagnostics printed, in order
    error,       \* the exception kind that reached main(), or "none"
    exitCode     \* the process's exit status once pc = "exit", else -1

vars == <<script, input_path, output_dir, model_size, creds, fs, fsStart, listing, outFiles,
          clock, pc, files, idx, status, loads, calls, returned, text, writes,
          stdout, error, exitCode>>

(***************************************************************************)
(* Bounds of the model.                                                    *)
(***************************************************************************)
MaxEntries == 3       \* most entries in the audio folder
MaxClock == 1         \* the clock runs from second 0 to second MaxClock

(***************************************************************************)
(* Characters and strings.                                                 *)
(***************************************************************************)
UpperChars == <<"A","B","C","D","E","F","G","H","I","J","K","L","M",
                "N","O","P","Q","R","S","T","U","V","W","X","Y","Z">>
LowerChars == <<"a","b","c","d","e","f","g","h","i","j","k","l","m",
                "n","o","p","q","r","s","t","u","v","w","x","y","z">>

\* upper-case letter -> its lower-case letter
LowerMap ==
    [c \in {UpperChars[i] : i \in DOMAIN UpperChars} |->
        LowerChars[CHOOSE i \in DOMAIN UpperChars : UpperChars[i] = c]]

\* str.lower() on one character
LowerChar(c) == IF c \in DOMAIN LowerMap THEN LowerMap[c] ELSE c

\* str.lower()
Lower(s) == [i \in DOMAIN s |-> LowerChar(s[i])]

\* str.rfind('.') with 0 for "not found" (positions are 1-based)
RFindDot(s) ==
    IF \E i \in DOMAIN s : s[i] = "."
    THEN CHOOSE i \in DOMAIN s : s[i] = "." /\ \A j \in DOMAIN s : j > i => s[j] # "."
    ELSE 0

\* os.path.splitext on a name without directory separators: the extension
\* starts at the last dot, unless only dots come before that dot.
splitext(s) ==
    LET dot == RFindDot(s) IN
    IF dot > 0 /\ \E k \in 1..(dot - 1) : s[k] # "."
    THEN <<SubSeq(s, 1, dot - 1), SubSeq(s, dot, Len(s))>>
    ELSE <<s, <<>>>>

\* `x in l` for a Python list l
InList(x, l) == \E i \in DOMAIN l : l[i] = x

(***************************************************************************)
(* Program constants.                                                      *)
(***************************************************************************)
SUPPORTED_EXTENSIONS ==
    << <<".","m","p","3">>, <<".","w","a","v">>, <<".","m","4","a">>,
       <<".","f","l","a","c">>, <<".","o","g","g">>, <<".","a","a","c">>,
       <<".","m","p","4">> >>

VALID_MODELS == <<"tiny", "base", "small", "medium", "large">>

\* argparse defaults
folder_path == "audio"
DefaultOutputDir == "transcripts"

(***************************************************************************)
(* Inputs.                                                                 *)
(***************************************************************************)
Scripts == {"all_files", "transcribe", "openai", "azure"}
LocalScripts == {"all_files", "transcribe"}
ApiScripts == {"openai", "azure"}

Kinds == {"dir", "file", "missing"}
Dirs == {folder_path, DefaultOutputDir}

\* a.mp3  a.WAV  b.x.Ogg  .mp3  a.txt  c.mp3.
NamePool ==
    { <<"a",".","m","p","3">>,
      <<"a",".","W","A","V">>,
      <<"b",".","x",".","O","g","g">>,
      <<".","m","p","3">>,
      <<"a",".","t","x","t">>,
      <<"c",".","m","p","3",".">> }

InputNames == { <<"a",".","m","p","3">>, <<"b",".","x",".","O","g","g">> }

\* directory contents: entries are distinct, in any order
ListingsOfLen(n) ==
    { s \in [1..n -> NamePool] : \A i, j \in 1..n : i # j => s[i] # s[j] }
Listings == UNION { ListingsOfLen(n) : n \in 0..MaxEntries }

NoPath == [dir |-> "", name |-> <<>>]
None == [dir |-> "None", name |-> <<>>]

(***************************************************************************)
(* Filesystem and path helpers.                                            *)
(***************************************************************************)
\* os.path.join(d, n)
join(d, n) == [dir |-> d, name |-> n]

\* os.path.basename(p)
basename(p) == p.name

\* os.path.isdir(d) for a directory path
isdir(d) == d \in Dirs /\ fs[d] = "dir"

\* os.path.exists(d) for a directory path ("" does not exist)
DirExists(d) == d \in Dirs /\ fs[d] # "missing"

\* os.path.exists(p) for a path below the audio folder
FileExists(p) == /\ p.dir = folder_path
                 /\ isdir(folder_path)
                 /\ InList(p.name, listing)

\* open(join(d, name), "w") can create the file: d is a directory
\* ("" is the current directory)
CanCreateIn(d) == d = "" \/ isdir(d)

\* os.makedirs(d, exist_ok=True) raises for the empty path and for a path
\* that is a file, and may raise (no permission) when it has to create d
MakeDirsMayRaise(d) == IF d = "" THEN TRUE ELSE fs[d] # "dir"

\* datetime.now().strftime("%Y%m%d_%H%M%S") when the clock shows second t
StampTable == <<"20240107_000000", "20240107_000001", "20240107_000002",
                "20240107_000003", "20240107_000004">>
strftime(t) == StampTable[t + 1]

\* the text the backend answers for the audio file at path p (the backend
\* is a function of the audio; different files have different transcripts)
Transcript(p) == <<"transcript of">> \o p.name

\* open(p, "w"); f.write(t): create or truncate
WriteFile(fsys, p, t) ==
    [q \in (DOMAIN fsys) \cup {p} |-> IF q = p THEN t ELSE fsys[q]]

(***************************************************************************)
(* Initial states: the start of main() after parse_args.                   *)
(***************************************************************************)
Init ==
    /\ script \in Scripts
    /\ output_dir \in {DefaultOutputDir, ""}
    /\ fs \in { f \in [Dirs -> Kinds] :
                  output_dir = "" => f[DefaultOutputDir] = "missing" }
    /\ fsStart = fs
    /\ listing \in IF fs[folder_path] # "dir" THEN {<<>>}
                   ELSE IF script = "all_files" THEN Listings
                   ELSE ListingsOfLen(0) \cup
                        { <<n>> : n \in InputNames }
    /\ input_path \in IF script = "all_files" THEN {NoPath}
                      ELSE {join(folder_path, n) : n \in InputNames}
    /\ model_size \in IF script \in LocalScripts THEN {"base", "huge"}
                      ELSE IF script = "openai" THEN {"whisper-1"} ELSE {"whisper"}
    /\ creds \in IF script \in ApiScripts THEN BOOLEAN ELSE {TRUE}
    /\ outFiles = <<>>
    /\ clock = 0
    /\ pc = "main"
    /\ files = <<>>
    /\ idx = 0
    /\ status = <<>>
    /\ loads = IF script = "all_files" THEN <<>> ELSE <<0>>
    /\ calls = IF script = "all_files" THEN <<>> ELSE <<0>>
    /\ returned = <<>>
    /\ text = <<>>
    /\ writes = <<>>
    /\ stdout = <<>>
    /\ error = "none"
    /\ exitCode = -1

(***************************************************************************)
(* transcribe-all-files.py                                                 *)
(***************************************************************************)
\* mutant: the filter without .lower()
IsSupportedCaseSensitive(f) == InList(splitext(f)[2], SUPPORTED_EXTENSIONS)

\* the filter of the list comprehension
IsSupported(f) == InList(Lower(splitext(f)[2]), SUPPORTED_EXTENSIONS)

\* files = [f for f in os.listdir(folder_path) if ...]
discover(l) == SelectSeq(l, IsSupported)

\* f"{base_name}_transcription_{timestamp}.txt"
LocalOutputName(base_name, timestamp) ==
    base_name \o <<"_", "transcription", "_", timestamp, ".txt">>

\* `if output_dir is None: output_dir = os.path.dirname(file_path)`
ResolveOutputDir(dir, file_path) ==
    IF dir = None.dir THEN file_path.dir ELSE dir

\* the file of the current loop iteration
file_path == join(folder_path, files[idx])

\* main(): the except branch: print, then fall off the end of main
AllFilesMainExcept(kind) ==
    /\ error' = kind
    /\ stdout' = Append(stdout, "Error")
    /\ pc' = "exit"
    /\ exitCode' = 0

\* main(): process_audio_folder returned
AllFilesMainReturn(out) ==
    /\ stdout' = out \o <<"All files processed.">>
    /\ pc' = "exit"
    /\ exitCode' = 0
    /\ UNCHANGED error

\* transcribe_audio_file: the except branch: print, return None
TAF_Except ==
    /\ status' = [status EXCEPT ![idx] = "Failed"]
    /\ returned' = [returned EXCEPT ![idx] = None]
    /\ stdout' = Append(stdout, "Error processing")
    /\ pc' = "loop"

\* mutant: the folder check with os.path.exists instead of os.path.isdir
PAF_CheckFolderExists ==
    /\ script = "all_files" /\ pc = "main"
    /\ IF ~DirExists(folder_path)
       THEN AllFilesMainExcept("FileNotFoundError")
       ELSE /\ pc' = "paf_makedirs"
            /\ UNCHANGED <<error, stdout, exitCode>>
    /\ UNCHANGED <<fsStart, script, input_path, output_dir, model_size, creds, fs,
                   listing, outFiles, clock, files, idx, status, loads, calls,
                   returned, text, writes>>

\* process_audio_folder: verify the folder exists
PAF_CheckFolder ==
    /\ script = "all_files" /\ pc = "main"
    /\ IF ~isdir(folder_path)
       THEN AllFilesMainExcept("FileNotFoundError")
       ELSE /\ pc' = "paf_makedirs"
            /\ UNCHANGED <<error, stdout, exitCode>>
    /\ UNCHANGED <<fsStart, script, input_path, output_dir, model_size, creds, fs, listing,
                   outFiles, clock, files, idx, status, loads, calls, returned,
                   text, writes>>

\* mutant: the output directory is never created
PAF_MakeOutputDirSkip ==
    /\ script = "all_files" /\ pc = "paf_makedirs"
    /\ pc' = "paf_list"
    /\ UNCHANGED <<fsStart, script, input_path, output_dir, model_size, creds, fs,
                   listing, outFiles, clock, files, idx, status, loads, calls,
                   returned, text, writes, stdout, error, exitCode>>

\* process_audio_folder: create the output directory if it doesn't exist
PAF_MakeOutputDir ==
    /\ script = "all_files" /\ pc = "paf_makedirs"
    /\ fs' = IF output_dir # "" /\ ~DirExists(output_dir)
             THEN [fs EXCEPT ![output_dir] = "dir"]
             ELSE fs
    /\ pc' = "paf_list"
    /\ UNCHANGED <<fsStart, script, input_path, output_dir, model_size, creds, listing,
                   outFiles, clock, files, idx, status, loads, calls, returned,
                   text, writes, stdout, error, exitCode>>

\* os.makedirs raises (no permission)
PAF_MakeOutputDirFail ==
    /\ script = "all_files" /\ pc = "paf_makedirs"
    /\ output_dir # "" /\ ~DirExists(output_dir)
    /\ AllFilesMainExcept("OSError")
    /\ UNCHANGED <<fsStart, script, input_path, output_dir, model_size, creds, fs, listing,
                   outFiles, clock, files, idx, status, loads, calls, returned,
                   text, writes>>

\* process_audio_folder: list the folder, return if nothing is supported
PAF_ListFiles ==
    /\ script = "all_files" /\ pc = "paf_list"
    /\ files' = discover(listing)
    /\ idx' = 0
    /\ status' = [i \in 1..Len(files') |-> "Pending"]
    /\ loads' = [i \in 1..Len(files') |-> 0]
    /\ calls' = [i \in 1..Len(files') |-> 0]
    /\ returned' = [i \in 1..Len(files') |-> NoPath]
    /\ IF files' = <<>>
       THEN AllFilesMainReturn(Append(stdout, "No supported audio files found"))
       ELSE /\ stdout' = Append(stdout, "Found")
            /\ pc' = "loop"
            /\ UNCHANGED <<error, exitCode>>
    /\ UNCHANGED <<fsStart, script, input_path, output_dir, model_size, creds, fs, listing,
                   outFiles, clock, text, writes>>

\* mutant: a failed file is tried once more before the loop moves on
PAF_ForNextRetry ==
    /\ script = "all_files" /\ pc = "loop"
    /\ idx < Len(files)
    /\ idx' = IF idx > 0 /\ status[idx] = "Failed" /\ calls[idx] = 1
              THEN idx ELSE idx + 1
    /\ status' = [status EXCEPT ![idx'] = "InProgress"]
    /\ pc' = "taf_check"
    /\ UNCHANGED <<fsStart, script, input_path, output_dir, model_size, creds, fs,
                   listing, outFiles, clock, files, loads, calls, returned, text,
                   writes, stdout, error, exitCode>>

\* for filename in files: the next iteration
PAF_ForNext ==
    /\ script = "all_files" /\ pc = "loop"
    /\ idx < Len(files)
    /\ idx' = idx + 1
    /\ status' = [status EXCEPT ![idx'] = "InProgress"]
    /\ pc' = "taf_check"
    /\ UNCHANGED <<fsStart, script, input_path, output_dir, model_size, creds, fs, listing,
                   outFiles, clock, files, loads, calls, returned, text, writes,
                   stdout, error, exitCode>>

\* for filename in files: exhausted; process_audio_folder returns to main
PAF_ForEnd ==
    /\ script = "all_files" /\ pc = "loop"
    /\ idx = Len(files)
    /\ AllFilesMainReturn(stdout)
    /\ UNCHANGED <<fsStart, script, input_path, output_dir, model_size, creds, fs, listing,
                   outFiles, clock, files, idx, status, loads, calls, returned,
                   text, writes>>

\* transcribe_audio_file: input file exists, model size is valid
TAF_Check ==
    /\ script = "all_files" /\ pc = "taf_check"
    /\ IF ~FileExists(file_path) \/ ~InList(model_size, VALID_MODELS)
       THEN TAF_Except
       ELSE /\ stdout' = Append(stdout, "Processing")
            /\ pc' = "taf_load"
            /\ UNCHANGED <<status, returned>>
    /\ UNCHANGED <<fsStart, script, input_path, output_dir, model_size, creds, fs, listing,
                   outFiles, clock, files, idx, loads, calls, text, writes,
                   error, exitCode>>

\* model = whisper.load_model(model_size)
TAF_LoadModel ==
    /\ script = "all_files" /\ pc = "taf_load"
    /\ loads' = [loads EXCEPT ![idx] = @ + 1]
    /\ pc' = "taf_transcribe"
    /\ UNCHANGED <<fsStart, script, input_path, output_dir, model_size, creds, fs, listing,
                   outFiles, clock, files, idx, status, calls, returned, text,
                   writes, stdout, error, exitCode>>

\* whisper.load_model raises
TAF_LoadModelFail ==
    /\ script = "all_files" /\ pc = "taf_load"
    /\ loads' = [loads EXCEPT ![idx] = @ + 1]
    /\ TAF_Except
    /\ UNCHANGED <<fsStart, script, input_path, output_dir, model_size, creds, fs, listing,
                   outFiles, clock, files, idx, calls, text, writes, error,
                   exitCode>>

\* result = model.transcribe(file_path)
TAF_Transcribe ==
    /\ script = "all_files" /\ pc = "taf_transcribe"
    /\ calls' = [calls EXCEPT ![idx] = @ + 1]
    /\ text' = Transcript(file_path)
    /\ pc' = "taf_write"
    /\ UNCHANGED <<fsStart, script, input_path, output_dir, model_size, creds, fs, listing,
                   outFiles, clock, files, idx, status, loads, returned, writes,
                   stdout, error, exitCode>>

\* model.transcribe raises
TAF_TranscribeFail ==
    /\ script = "all_files" /\ pc = "taf_transcribe"
    /\ calls' = [calls EXCEPT ![idx] = @ + 1]
    /\ TAF_Except
    /\ UNCHANGED <<fsStart, script, input_path, output_dir, model_size, creds, fs, listing,
                   outFiles, clock, files, idx, loads, text, writes, error,
                   exitCode>>

\* transcribe_audio_file: the output path when the clock shows second now
TAF_OutputPath(now) ==
    join(ResolveOutputDir(output_dir, file_path),
         LocalOutputName(splitext(basename(file_path))[1], strftime(now)))

\* transcribe_audio_file: name the output file, write it, return its path
TAF_Write ==
    /\ script = "all_files" /\ pc = "taf_write"
    /\ CanCreateIn(ResolveOutputDir(output_dir, file_path))
    /\ \E now \in clock..MaxClock :
         /\ clock' = now
         /\ outFiles' = WriteFile(outFiles, TAF_OutputPath(now), text)
         /\ writes' = Append(writes, [src |-> file_path, path |-> TAF_OutputPath(now),
                                      text |-> text, at |-> now])
         /\ returned' = [returned EXCEPT ![idx] = TAF_OutputPath(now)]
    /\ status' = [status EXCEPT ![idx] = "Succeeded"]
    /\ stdout' = Append(stdout, "Successfully transcribed")
    /\ pc' = "loop"
    /\ UNCHANGED <<fsStart, script, input_path, output_dir, model_size, creds, fs, listing,
                   files, idx, loads, calls, text, error, exitCode>>

\* open(output_path, "w") raises: no such directory, or any other OSError
TAF_WriteFail ==
    /\ script = "all_files" /\ pc = "taf_write"
    /\ TAF_Except
    /\ UNCHANGED <<fsStart, script, input_path, output_dir, model_size, creds, fs, listing,
                   outFiles, clock, files, idx, loads, calls, text, writes, error,
                   exitCode>>

AllFilesNext ==
    \/ PAF_CheckFolder
    \/ PAF_MakeOutputDir
    \/ PAF_MakeOutputDirFail
    \/ PAF_ListFiles
    \/ PAF_ForNext
    \/ PAF_ForEnd
    \/ TAF_Check
    \/ TAF_LoadModel
    \/ TAF_LoadModelFail
    \/ TAF_Transcribe
    \/ TAF_TranscribeFail
    \/ TAF_Write
    \/ TAF_WriteFail

(***************************************************************************)
(* The single-file scripts share the shape of their steps; what a step     *)
(* leaves unchanged is named once.                                         *)
(***************************************************************************)
SingleUnused == <<fsStart, script, input_path, output_dir, model_size, creds, listing,
                  files, idx, status>>

\* a write of the single-file scripts at second now to path p
SingleWrite(now, p) ==
    /\ clock' = now
    /\ outFiles' = WriteFile(outFiles, p, text)
    /\ writes' = Append(writes, [src |-> input_path, path |-> p,
                                 text |-> text, at |-> now])
    /\ returned' = <<p>>

(***************************************************************************)
(* transcribe.py                                                           *)
(***************************************************************************)
\* main(): the except branch: print, then fall off the end of main
TranscribeMainExcept(kind) ==
    /\ error' = kind
    /\ stdout' = Append(stdout, "Error")
    /\ pc' = "exit"
    /\ exitCode' = 0

\* transcribe_mp3: input file exists, model size is valid
T_Check ==
    /\ script = "transcribe" /\ pc = "main"
    /\ IF ~FileExists(input_path)
       THEN TranscribeMainExcept("FileNotFoundError")
       ELSE IF ~InList(model_size, VALID_MODELS)
       THEN TranscribeMainExcept("ValueError")
       ELSE /\ stdout' = Append(stdout, "Loading Whisper model")
            /\ pc' = "t_load"
            /\ UNCHANGED <<error, exitCode>>
    /\ UNCHANGED <<SingleUnused, fs, outFiles, clock, loads, calls, returned,
                   text, writes>>

\* model = whisper.load_model(model_size)
T_LoadModel ==
    /\ script = "transcribe" /\ pc = "t_load"
    /\ loads' = [loads EXCEPT ![1] = @ + 1]
    /\ stdout' = Append(stdout, "Transcribing")
    /\ pc' = "t_transcribe"
    /\ UNCHANGED <<SingleUnused, fs, outFiles, clock, calls, returned, text,
                   writes, error, exitCode>>

\* whisper.load_model raises
T_LoadModelFail ==
    /\ script = "transcribe" /\ pc = "t_load"
    /\ loads' = [loads EXCEPT ![1] = @ + 1]
    /\ TranscribeMainExcept("BackendError")
    /\ UNCHANGED <<SingleUnused, fs, outFiles, clock, calls, returned, text,
                   writes>>

\* result = model.transcribe(input_path, verbose=True)
T_Transcribe ==
    /\ script = "transcribe" /\ pc = "t_transcribe"
    /\ calls' = [calls EXCEPT ![1] = @ + 1]
    /\ text' = Transcript(input_path)
    /\ pc' = "t_write"
    /\ UNCHANGED <<SingleUnused, fs, outFiles, clock, loads, returned, writes,
                   stdout, error, exitCode>>

\* model.transcribe raises
T_TranscribeFail ==
    /\ script = "transcribe" /\ pc = "t_transcribe"
    /\ calls' = [calls EXCEPT ![1] = @ + 1]
    /\ TranscribeMainExcept("BackendError")
    /\ UNCHANGED <<SingleUnused, fs, outFiles, clock, loads, returned, text,
                   writes>>

\* transcribe_mp3: the output path when the clock shows second now
T_OutputPath(now) ==
    join(ResolveOutputDir(output_dir, input_path),
         LocalOutputName(splitext(basename(input_path))[1], strftime(now)))

\* transcribe_mp3: name the output file, write it, return its path
T_Write ==
    /\ script = "transcribe" /\ pc = "t_write"
    /\ CanCreateIn(ResolveOutputDir(output_dir, input_path))
    /\ \E now \in clock..MaxClock : SingleWrite(now, T_OutputPath(now))
    /\ stdout' = Append(stdout, "Transcription saved")
    /\ pc' = "exit"
    /\ exitCode' = 0
    /\ UNCHANGED <<SingleUnused, fs, loads, calls, text, error>>

\* open(output_path, "w") raises: no such directory, or any other OSError
T_WriteFail ==
    /\ script = "transcribe" /\ pc = "t_write"
    /\ TranscribeMainExcept("OSError")
    /\ UNCHANGED <<SingleUnused, fs, outFiles, clock, loads, calls, returned,
                   text, writes>>

TranscribeNext ==
    \/ T_Check
    \/ T_LoadModel
    \/ T_LoadModelFail
    \/ T_Transcribe
    \/ T_TranscribeFail
    \/ T_Write
    \/ T_WriteFail

(***************************************************************************)
(* transcribe-openai.py                                                    *)
(***************************************************************************)
\* f"{base_name}_transcription_openai_{timestamp}.txt"
OpenAIOutputName(base_name, timestamp) ==
    base_name \o <<"_", "transcription", "_", "openai", "_", timestamp, ".txt">>

\* main(): the except branch: print, then fall off the end of main
OpenAIMainExcept(kind) ==
    /\ error' = kind
    /\ stdout' = Append(stdout, "Error")
    /\ pc' = "exit"
    /\ exitCode' = 0

\* transcribe_mp3: input file exists
O_Check ==
    /\ script = "openai" /\ pc = "main"
    /\ IF ~FileExists(input_path)
       THEN OpenAIMainExcept("FileNotFoundError")
       ELSE /\ pc' = "o_client"
            /\ UNCHANGED <<error, stdout, exitCode>>
    /\ UNCHANGED <<SingleUnused, fs, outFiles, clock, loads, calls, returned,
                   text, writes>>

\* client = OpenAI(): raises when OPENAI_API_KEY is not set
O_Client ==
    /\ script = "openai" /\ pc = "o_client"
    /\ IF ~creds
       THEN OpenAIMainExcept("OpenAIError")
       ELSE /\ stdout' = Append(stdout, "Transcribing")
            /\ pc' = "o_transcribe"
            /\ UNCHANGED <<error, exitCode>>
    /\ UNCHANGED <<SingleUnused, fs, outFiles, clock, loads, calls, returned,
                   text, writes>>

\* transcript = client.audio.transcriptions.create(...)
O_Transcribe ==
    /\ script = "openai" /\ pc = "o_transcribe"
    /\ calls' = [calls EXCEPT ![1] = @ + 1]
    /\ text' = Transcript(input_path)
    /\ pc' = "o_makedirs"
    /\ UNCHANGED <<SingleUnused, fs, outFiles, clock, loads, returned, writes,
                   stdout, error, exitCode>>

\* the API call raises: re-raised as Exception("Error calling OpenAI API")
O_TranscribeFail ==
    /\ script = "openai" /\ pc = "o_transcribe"
    /\ calls' = [calls EXCEPT ![1] = @ + 1]
    /\ OpenAIMainExcept("BackendError")
    /\ UNCHANGED <<SingleUnused, fs, outFiles, clock, loads, returned, text,
                   writes>>

\* os.makedirs(output_dir, exist_ok=True)
O_MakeDirs ==
    /\ script = "openai" /\ pc = "o_makedirs"
    /\ output_dir # "" /\ fs[output_dir] # "file"
    /\ fs' = [fs EXCEPT ![output_dir] = "dir"]
    /\ pc' = "o_write"
    /\ UNCHANGED <<SingleUnused, outFiles, clock, loads, calls, returned, text,
                   writes, stdout, error, exitCode>>

\* os.makedirs raises: empty path, the path is a file, or no permission
O_MakeDirsFail ==
    /\ script = "openai" /\ pc = "o_makedirs"
    /\ MakeDirsMayRaise(output_dir)
    /\ OpenAIMainExcept("OSError")
    /\ UNCHANGED <<SingleUnused, fs, outFiles, clock, loads, calls, returned,
                   text, writes>>

\* transcribe_mp3: the output path when the clock shows second now
O_OutputPath(now) ==
    join(ResolveOutputDir(output_dir, input_path),
         OpenAIOutputName(splitext(basename(input_path))[1], strftime(now)))

\* transcribe_mp3: name the output file, write it, return its path
O_Write ==
    /\ script = "openai" /\ pc = "o_write"
    /\ CanCreateIn(ResolveOutputDir(output_dir, input_path))
    /\ \E now \in clock..MaxClock : SingleWrite(now, O_OutputPath(now))
    /\ stdout' = Append(stdout, "Transcription saved")
    /\ pc' = "exit"
    /\ exitCode' = 0
    /\ UNCHANGED <<SingleUnused, fs, loads, calls, text, error>>

\* open(output_path, "w") raises
O_WriteFail ==
    /\ script = "openai" /\ pc = "o_write"
    /\ OpenAIMainExcept("OSError")
    /\ UNCHANGED <<SingleUnused, fs, outFiles, clock, loads, calls, returned,
                   text, writes>>

OpenAINext ==
    \/ O_Check
    \/ O_Client
    \/ O_Transcribe
    \/ O_TranscribeFail
    \/ O_MakeDirs
    \/ O_MakeDirsFail
    \/ O_Write
    \/ O_WriteFail

(***************************************************************************)
(* transcribe-azure.py                                                     *)
(***************************************************************************)
\* f"{base_name}_transcript_azureopenai_{timestamp}.txt"
AzureOutputName(base_name, timestamp) ==
    base_name \o <<"_", "transcript", "_", "azureopenai", "_", timestamp, ".txt">>

\* main(): the except branch: print the error and the tips, exit(1)
AzureMainExcept(kind) ==
    /\ error' = kind
    /\ stdout' = stdout \o <<"ERROR", "Troubleshooting tips">>
    /\ pc' = "exit"
    /\ exitCode' = 1

\* validate_environment(): the required environment variables are set
validate_environment ==
    /\ script = "azure" /\ pc = "main"
    /\ IF ~creds
       THEN AzureMainExcept("EnvironmentError")
       ELSE /\ pc' = "a_check"
            /\ UNCHANGED <<error, stdout, exitCode>>
    /\ UNCHANGED <<SingleUnused, fs, outFiles, clock, loads, calls, returned,
                   text, writes>>

\* transcribe_audio: input file exists
A_Check ==
    /\ script = "azure" /\ pc = "a_check"
    /\ IF ~FileExists(input_path)
       THEN AzureMainExcept("FileNotFoundError")
       ELSE /\ stdout' = Append(stdout, "Transcribing")
            /\ pc' = "a_transcribe"
            /\ UNCHANGED <<error, exitCode>>
    /\ UNCHANGED <<SingleUnused, fs, outFiles, clock, loads, calls, returned,
                   text, writes>>

\* transcription = client.audio.transcriptions.create(...)
A_Transcribe ==
    /\ script = "azure" /\ pc = "a_transcribe"
    /\ calls' = [calls EXCEPT ![1] = @ + 1]
    /\ text' = Transcript(input_path)
    /\ pc' = "a_makedirs"
    /\ UNCHANGED <<SingleUnused, fs, outFiles, clock, loads, returned, writes,
                   stdout, error, exitCode>>

\* the client or the API call raises: re-raised as "Transcription failed"
A_TranscribeFail ==
    /\ script = "azure" /\ pc = "a_transcribe"
    /\ calls' = [calls EXCEPT ![1] = @ + 1]
    /\ AzureMainExcept("BackendError")
    /\ UNCHANGED <<SingleUnused, fs, outFiles, clock, loads, returned, text,
                   writes>>

\* os.makedirs(output_dir, exist_ok=True)
A_MakeDirs ==
    /\ script = "azure" /\ pc = "a_makedirs"
    /\ output_dir # "" /\ fs[output_dir] # "file"
    /\ fs' = [fs EXCEPT ![output_dir] = "dir"]
    /\ pc' = "a_write"
    /\ UNCHANGED <<SingleUnused, outFiles, clock, loads, calls, returned, text,
                   writes, stdout, error, exitCode>>

\* os.makedirs raises: empty path, the path is a file, or no permission
A_MakeDirsFail ==
    /\ script = "azure" /\ pc = "a_makedirs"
    /\ MakeDirsMayRaise(output_dir)
    /\ AzureMainExcept("OSError")
    /\ UNCHANGED <<SingleUnused, fs, outFiles, clock, loads, calls, returned,
                   text, writes>>

\* transcribe_audio: the output path when the clock shows second now
A_OutputPath(now) ==
    join(ResolveOutputDir(output_dir, input_path),
         AzureOutputName(splitext(basename(input_path))[1], strftime(now)))

\* transcribe_audio: name the output file, write it, return its path
A_Write ==
    /\ script = "azure" /\ pc = "a_write"
    /\ CanCreateIn(ResolveOutputDir(output_dir, input_path))
    /\ \E now \in clock..MaxClock : SingleWrite(now, A_OutputPath(now))
    /\ stdout' = Append(stdout, "Success")
    /\ pc' = "exit"
    /\ exitCode' = 0
    /\ UNCHANGED <<SingleUnused, fs, loads, calls, text, error>>

\* open(output_path, "w") raises
A_WriteFail ==
    /\ script = "azure" /\ pc = "a_write"
    /\ AzureMainExcept("OSError")
    /\ UNCHANGED <<SingleUnused, fs, outFiles, clock, loads, calls, returned,
                   text, writes>>

AzureNext ==
    \/ validate_environment
    \/ A_Check
    \/ A_Transcribe
    \/ A_TranscribeFail
    \/ A_MakeDirs
    \/ A_MakeDirsFail
    \/ A_Write
    \/ A_WriteFail

Next ==
    \/ AllFilesNext
    \/ TranscribeNext
    \/ OpenAINext
    \/ AzureNext

Spec == Init /\ [][Next]_vars

(***************************************************************************)
(* Vocabulary of the properties.                                           *)
(***************************************************************************)
Batch == script = "all_files"
InLoop == pc \in {"loop", "taf_check", "taf_load", "taf_transcribe", "taf_write"}
Terminal == {"Succeeded", "Failed"}
Range(f) == {f[i] : i \in DOMAIN f}

\* the name n ends with the extension x (a dot and no further dot), and
\* something other than dots comes before it
EndsWithExt(n, x) ==
    /\ Len(n) > Len(x)
    /\ SubSeq(n, Len(n) - Len(x) + 1, Len(n)) = x
    /\ \E k \in 1..(Len(n) - Len(x)) : n[k] # "."

\* the entry's extension, lower-cased, is a recognized one
Recognized(n) ==
    \E k \in DOMAIN SUPPORTED_EXTENSIONS : EndsWithExt(Lower(n), SUPPORTED_EXTENSIONS[k])

\* the text the backend returned for files[j], as recorded when it was written
WrittenText(j) ==
    LET k == CHOOSE m \in DOMAIN writes : writes[m].src = join(folder_path, files[j])
    IN writes[k].text

\* files[j] has an output file, at the path returned for it, holding its text
HasOwnOutput(j) ==
    /\ status[j] = "Succeeded"
    /\ returned[j] \in DOMAIN outFiles
    /\ outFiles[returned[j]] = WrittenText(j)

(***************************************************************************)
(* C1: failure isolation.  Once the batch has ended over a non-empty list, *)
(* the loop has attempted every file and no error reached main; and if     *)
(* exactly one file failed, that file returned None and every other file   *)
(* succeeded and has an output file holding its own backend text.          *)
(***************************************************************************)
C1_FailureIsolation ==
    (Batch /\ pc = "exit" /\ files # <<>>) =>
        /\ error = "none"
        /\ idx = Len(files)
        /\ \A j \in DOMAIN files : status[j] \in Terminal
        /\ \A i \in DOMAIN files :
             (status[i] = "Failed" /\ \A j \in DOMAIN files \ {i} : status[j] # "Failed")
             => /\ returned[i] = None
                /\ \A j \in DOMAIN files \ {i} : HasOwnOutput(j)

(***************************************************************************)
(* C2: when every file of the batch succeeded, there are as many output    *)
(* files as input files and each file's output holds exactly the text the  *)
(* backend returned for it, whatever the names and the timestamps.         *)
(***************************************************************************)
C2_AllSucceedAllWritten ==
    (Batch /\ pc = "exit" /\ files # <<>>
           /\ \A j \in DOMAIN files : status[j] = "Succeeded")
    => /\ Cardinality(DOMAIN outFiles) = Len(files)
       /\ \A j \in DOMAIN files : HasOwnOutput(j)

(***************************************************************************)
(* C3: discovery is exact.  Once the folder is listed, an entry of the     *)
(* folder is in files iff its lower-cased extension is recognized, files   *)
(* holds only entries of the folder, and holds none twice.                 *)
(***************************************************************************)
C3_DiscoveryExact ==
    (Batch /\ (InLoop \/ (pc = "exit" /\ error = "none"))) =>
        /\ \A e \in Range(listing) : InList(e, files) <=> Recognized(e)
        /\ \A i \in DOMAIN files : InList(files[i], listing)
        /\ \A i, j \in DOMAIN files : i # j => files[i] # files[j]

\* a listing with upper-case, multi-dot and unrecognized entries was filtered
C3_Witness ==
    /\ Batch /\ pc = "exit" /\ error = "none"
    /\ Len(listing) = 3 /\ Len(files) = 2
    /\ InList(<<"a",".","W","A","V">>, files)
    /\ InList(<<"b",".","x",".","O","g","g">>, files)
    /\ InList(<<".","m","p","3">>, listing)

(***************************************************************************)
(* C4: when folder_path is missing or is not a directory, the run ends in  *)
(* main's handler with FileNotFoundError and never reports success; it     *)
(* gets past no step after the check, so the filesystem is as it was, the  *)
(* folder is not listed and the backend is not called.                     *)
(***************************************************************************)
C4_MissingFolderFails ==
    (Batch /\ fsStart[folder_path] # "dir") =>
        /\ pc \in {"main", "exit"}
        /\ fs = fsStart /\ outFiles = <<>> /\ writes = <<>>
        /\ files = <<>> /\ loads = <<>> /\ calls = <<>> /\ returned = <<>>
        /\ pc = "exit" => /\ error = "FileNotFoundError"
                          /\ stdout = <<"Error">>

\* the folder path is a regular file and the output directory is missing
C4_Witness ==
    /\ Batch /\ pc = "exit"
    /\ fsStart[folder_path] = "file"
    /\ fsStart[DefaultOutputDir] = "missing" /\ output_dir = DefaultOutputDir
    /\ error = "FileNotFoundError"

(***************************************************************************)
(* C5: a batch over a folder without supported files calls no backend and  *)
(* writes nothing; it returns with nothing transcribed and with the output *)
(* directory present, created if it was missing, unless creating the       *)
(* directory itself failed, which reaches main as an OSError.              *)
(***************************************************************************)
C5_EmptyBatch ==
    (Batch /\ pc = "exit" /\ fsStart[folder_path] = "dir"
           /\ \A e \in Range(listing) : ~Recognized(e))
    => /\ files = <<>> /\ returned = <<>>
       /\ loads = <<>> /\ calls = <<>> /\ text = <<>>
       /\ writes = <<>> /\ outFiles = <<>>
       /\ \/ /\ error = "none"
             /\ output_dir # "" => /\ fs[output_dir] # "missing"
                                   /\ fsStart[output_dir] = "missing"
                                        => fs[output_dir] = "dir"
          \/ /\ error = "OSError"
             /\ output_dir # "" /\ fsStart[output_dir] = "missing"

\* a folder holding only unsupported entries, the output directory created
C5_Witness ==
    /\ Batch /\ pc = "exit" /\ error = "none"
    /\ Len(listing) = 2 /\ files = <<>>
    /\ output_dir = DefaultOutputDir
    /\ fsStart[DefaultOutputDir] = "missing" /\ fs[DefaultOutputDir] = "dir"
    /\ stdout = <<"No supported audio files found", "All files processed.">>

(***************************************************************************)
(* C6: in every script, the open-for-write of the output file is reached   *)
(* only when the output directory exists.                                  *)
(***************************************************************************)
C6_OutputDirBeforeWrite ==
    pc \in {"taf_write", "t_write", "o_write", "a_write"} => CanCreateIn(output_dir)

(***************************************************************************)
(* C7: a run that ends on a setup error (missing input, missing            *)
(* credentials) has printed a diagnostic; a single-file script then exits  *)
(* with a non-zero status, the folder script with status 0.                *)
(***************************************************************************)
SetupErrors == {"FileNotFoundError", "EnvironmentError", "OpenAIError"}

C7_ExitStatus ==
    (pc = "exit" /\ error \in SetupErrors) =>
        /\ stdout # <<>>
        /\ IF Batch THEN exitCode = 0 ELSE exitCode # 0

(***************************************************************************)
(* C8: a batch started with an unrecognized model identifier stops at the  *)
(* first file: no file is recorded as failed, the loop goes on to no       *)
(* further file, and the run ends with the error raised to main.           *)
(***************************************************************************)
C8_ConfigErrorAborts ==
    (Batch /\ ~InList(model_size, VALID_MODELS) /\ files # <<>>) =>
        /\ \A i \in DOMAIN files : status[i] # "Failed"
        /\ idx <= 1
        /\ pc = "exit" => error = "ValueError"

(***************************************************************************)
(* C9: every transcript written is in the resolved output directory and is *)
(* named {baseName}_transcript_{vendorTag}_{timestamp}.txt, baseName the   *)
(* input name without its extension, timestamp the second of the write.    *)
(***************************************************************************)
VendorTags == {"whisper", "openai", "azureopenai"}

C9_OutputName ==
    \A k \in DOMAIN writes :
        /\ writes[k].path.dir = output_dir
        /\ \E tag \in VendorTags :
             writes[k].path.name =
                 splitext(writes[k].src.name)[1]
                     \o <<"_", "transcript", "_", tag, "_",
                          strftime(writes[k].at), ".txt">>

(***************************************************************************)
(* C10: each discovered file goes Pending -> InProgress -> Succeeded or    *)
(* Failed and nothing else; at most one file is InProgress; files enter    *)
(* InProgress in discovery order; a terminal state never changes; the      *)
(* backend is called at most once per file.                                *)
(***************************************************************************)
C10_Shape ==
    Batch =>
        /\ Cardinality({i \in DOMAIN status : status[i] = "InProgress"}) <= 1
        /\ \A i \in DOMAIN status :
             /\ i < idx => status[i] \in Terminal
             /\ i = idx => status[i] \in Terminal \cup {"InProgress"}
             /\ i > idx => status[i] = "Pending"
             /\ calls[i] <= 1 /\ loads[i] <= 1
             /\ status[i] = "Pending" => calls[i] = 0

C10_Step ==
    \A i \in (DOMAIN status) \cap (DOMAIN status') :
        /\ status[i] \in Terminal => status'[i] = status[i] /\ calls'[i] = calls[i]
        /\ status'[i] # status[i] =>
             <<status[i], status'[i]>> \in {<<"Pending", "InProgress">>,
                                            <<"InProgress", "Succeeded">>,
                                            <<"InProgress", "Failed">>}

C10_FileStateMachine == [](C10_Shape) /\ [][C10_Step]_vars

\* three files, the middle one failed after its one backend call
C10_Witness ==
    /\ Batch /\ pc = "exit"
    /\ status = <<"Succeeded", "Failed", "Succeeded">>
    /\ calls = <<1, 1, 1>>

====
